---- MODULE Spec2Model ----
(***************************************************************************)
(* A model of pdf-compressor-rust: the per-image pipeline                  *)
(* process_image_object (src/pdf-compressor-rust/src/lib.rs) and the two   *)
(* document drivers that call it, main (src/pdf-compressor-rust/src/       *)
(* main.rs) and compress_pdf (lib.rs).                                     *)
(*                                                                         *)
(* Object identifiers (u32, u16) are modelled by their number; every       *)
(* object has generation 0.  Byte strings are sequences of numbers.  The   *)
(* external codecs are modelled by small codecs of the same shape: zlib by *)
(* a run-length code with a header byte and a checksum (lossless, rejects  *)
(* malformed input), JPEG by a header carrying the dimensions and the      *)
(* channel count followed by one quantised mean per channel (lossy,        *)
(* smaller than the samples it encodes).                                   *)
(***************************************************************************)
EXTENDS Integers, Sequences, FiniteSets, TLC

(***************************************************************************)
(* Bounds of the model.                                                    *)
(***************************************************************************)
NumIds == 3
MaxSide == 2
MaxW == 12

Ids == 1 .. NumIds
\* An identifier no document holds: the target of a dangling reference.
DanglingId == NumIds + 1
Sides == 0 .. MaxSide

(***************************************************************************)
(* lopdf::Object.  A dictionary is a record over the keys the program      *)
(* reads or writes; NoEntry stands for a key the dictionary does not hold. *)
(***************************************************************************)
NoEntry == [t |-> "none"]
Null == [t |-> "null"]
Integer(n) == [t |-> "int", n |-> n]
Name(s) == [t |-> "name", s |-> s]
Ref(i) == [t |-> "ref", id |-> i]
Arr(items) == [t |-> "arr", items |-> items]
Dict(tag) == [t |-> "dict", tag |-> tag]
Stream(dict, content) == [t |-> "stream", dict |-> dict, content |-> content]
Absent == [t |-> "absent"]

\* doc.objects.get(&id)
Get(d, id) == IF id \in DOMAIN d THEN d[id] ELSE Absent

IsStream(o) == o.t = "stream"

\* dict.get(key).and_then(|o| o.as_i64()).unwrap_or(0) as u32
\* (the documents of the model hold small non-negative integers only)
AsU32(entry) == IF entry.t = "int" THEN entry.n ELSE 0

(***************************************************************************)
(* Sequences of bytes.                                                     *)
(***************************************************************************)
RECURSIVE SumSeq(_)
SumSeq(s) == IF s = <<>> THEN 0 ELSE Head(s) + SumSeq(Tail(s))

RECURSIVE LeadingRun(_)
LeadingRun(s) ==
    IF Len(s) < 2 \/ s[1] # s[2] THEN 1
    ELSE 1 + LeadingRun(Tail(s))

RECURSIVE RunLength(_)
RunLength(s) ==
    IF s = <<>> THEN <<>>
    ELSE LET n == LeadingRun(s)
         IN  <<n, Head(s)>> \o RunLength(SubSeq(s, n + 1, Len(s)))

RECURSIVE Expand(_)
Expand(pairs) ==
    IF Len(pairs) < 2 THEN <<>>
    ELSE [i \in 1 .. pairs[1] |-> pairs[2]] \o Expand(SubSeq(pairs, 3, Len(pairs)))

RECURSIVE RunsOk(_)
RunsOk(pairs) ==
    \/ pairs = <<>>
    \/ /\ Len(pairs) >= 2
       /\ pairs[1] >= 1
       /\ RunsOk(SubSeq(pairs, 3, Len(pairs)))

Checksum(bytes) == (SumSeq(bytes) + Len(bytes)) % 251

(***************************************************************************)
(* flate2::write::ZlibEncoder (write_all, finish) and                      *)
(* flate2::read::ZlibDecoder (read_to_end).                                *)
(***************************************************************************)
ZlibEncode(bytes) == <<120>> \o RunLength(bytes) \o <<Checksum(bytes)>>

ZlibDecode(content) ==
    LET n == Len(content)
        body == SubSeq(content, 2, n - 1)
        out == Expand(body)
    IN  IF n >= 2 /\ content[1] = 120 /\ RunsOk(body) /\ Checksum(out) = content[n]
        THEN [ok |-> TRUE, bytes |-> out]
        ELSE [ok |-> FALSE, bytes |-> <<>>]

(***************************************************************************)
(* Pixel buffers (image::DynamicImage): w, h, the channel count ch         *)
(* (1 ImageLuma8, 3 ImageRgb8, 4 ImageRgba8) and the samples px, row by    *)
(* row, ch samples per pixel.                                               *)
(***************************************************************************)
Max(a, b) == IF a >= b THEN a ELSE b
Min(a, b) == IF a <= b THEN a ELSE b

Image(w, h, ch, px) == [w |-> w, h |-> h, ch |-> ch, px |-> px]
NoImage == [ok |-> FALSE, img |-> Image(0, 0, 0, <<>>)]
Some(img) == [ok |-> TRUE, img |-> img]

\* ImageBuffer::from_raw(width, height, buf): None if buf is too short.
FromRaw(w, h, ch, buf) ==
    IF Len(buf) >= w * h * ch
    THEN Some(Image(w, h, ch, SubSeq(buf, 1, w * h * ch)))
    ELSE NoImage

\* The sample of channel c (1-based) of pixel p (1-based).
Sample(img, p, c) == img.px[(p - 1) * img.ch + c]

ToLuma8(img) ==
    IF img.ch = 1 THEN img
    ELSE Image(img.w, img.h, 1,
               [p \in 1 .. img.w * img.h |->
                   (Sample(img, p, 1) + Sample(img, p, 2) + Sample(img, p, 3)) \div 3])

ToRgb8(img) ==
    IF img.ch = 3 THEN img
    ELSE Image(img.w, img.h, 3,
               [i \in 1 .. img.w * img.h * 3 |->
                   LET p == (i - 1) \div 3 + 1
                       c == ((i - 1) % 3) + 1
                   IN  IF img.ch = 1 THEN Sample(img, p, 1) ELSE Sample(img, p, c)])

ToRgba8(img) ==
    IF img.ch = 4 THEN img
    ELSE Image(img.w, img.h, 4,
               [i \in 1 .. img.w * img.h * 4 |->
                   LET p == (i - 1) \div 4 + 1
                       c == ((i - 1) % 4) + 1
                   IN  IF c = 4 THEN 255
                       ELSE IF img.ch = 1 THEN Sample(img, p, 1)
                       ELSE Sample(img, p, c)])

(***************************************************************************)
(* image::codecs::jpeg::JpegEncoder and image::load_from_memory.  The      *)
(* encoder rejects an image with a zero dimension.  The encoded stream is  *)
(* a marker byte, the width, the height, then one quantised mean per       *)
(* channel; the quality sets the quantisation step.                        *)
(***************************************************************************)
QuantStep(quality) == (100 - Max(1, Min(100, quality))) \div 25 + 1

ChannelMean(img, c) ==
    SumSeq([p \in 1 .. img.w * img.h |-> Sample(img, p, c)]) \div (img.w * img.h)

JpegEncode(img, quality) ==
    IF img.w = 0 \/ img.h = 0 \/ img.ch \notin {1, 3}
    THEN [ok |-> FALSE, bytes |-> <<>>]
    ELSE [ok |-> TRUE,
          bytes |-> <<216, img.w, img.h>> \o
                    [c \in 1 .. img.ch |->
                        (ChannelMean(img, c) \div QuantStep(quality)) * QuantStep(quality)]]

LoadFromMemory(bytes) ==
    IF /\ Len(bytes) \in {4, 6}
       /\ bytes[1] = 216
       /\ bytes[2] >= 1
       /\ bytes[3] >= 1
    THEN LET ch == Len(bytes) - 3
         IN  Some(Image(bytes[2], bytes[3], ch,
                        [i \in 1 .. bytes[2] * bytes[3] * ch |-> bytes[3 + ((i - 1) % ch) + 1]]))
    ELSE NoImage

(***************************************************************************)
(* DynamicImage::resize(max_dim, max_dim, Lanczos3): the dimensions are    *)
(* those of image::math::utils::resize_dimensions (the ratio of the larger *)
(* side, each side rounded to nearest and at least 1); the samples are     *)
(* taken at the nearest source pixel, and an empty source gives zeros.     *)
(***************************************************************************)
RoundDiv(a, b) == (2 * a + b) \div (2 * b)

ResizeDimensions(w, h, nw) ==
    LET m == Max(w, h)
    IN  <<Max(RoundDiv(w * nw, m), 1), Max(RoundDiv(h * nw, m), 1)>>

Resample(img, nw, nh) ==
    Image(nw, nh, img.ch,
          [i \in 1 .. nw * nh * img.ch |->
              LET q == (i - 1) \div img.ch
                  c == ((i - 1) % img.ch) + 1
                  x == q % nw
                  y == q \div nw
                  sx == (x * img.w) \div nw
                  sy == (y * img.h) \div nh
              IN  IF img.w = 0 \/ img.h = 0 THEN 0
                  ELSE Sample(img, sy * img.w + sx + 1, c)])

\* A resizer that acts only when both sides exceed the bound.
ResizeBothExceed(img, max_dim) ==
    IF img.w > max_dim /\ img.h > max_dim
    THEN LET d == ResizeDimensions(img.w, img.h, max_dim)
         IN  [resized |-> TRUE,
              img |-> IF d = <<img.w, img.h>> THEN img ELSE Resample(img, d[1], d[2])]
    ELSE [resized |-> FALSE, img |-> img]

\* lib.rs 298-309: the resized image and whether it was resized.
Resize(img, max_dim) ==
    IF img.w > max_dim \/ img.h > max_dim
    THEN LET d == ResizeDimensions(img.w, img.h, max_dim)
         IN  [resized |-> TRUE,
              img |-> IF d = <<img.w, img.h>> THEN img ELSE Resample(img, d[1], d[2])]
    ELSE [resized |-> FALSE, img |-> img]

(***************************************************************************)
(* lib.rs 222-239: packed CMYK quadruplets to RGB, R = (1-C)(1-K) and so   *)
(* on, truncated; a short last chunk gives a black pixel.                  *)
(***************************************************************************)
CmykToRgb(content) ==
    [i \in 1 .. ((Len(content) + 3) \div 4) * 3 |->
        LET q == (i - 1) \div 3
            c == ((i - 1) % 3) + 1
        IN  IF q * 4 + 4 > Len(content) THEN 0
            ELSE ((255 - content[q * 4 + c]) * (255 - content[q * 4 + 4])) \div 255]

(***************************************************************************)
(* Stream decoding.                                                        *)
(***************************************************************************)
Bytes(b) == [ok |-> TRUE, bytes |-> b]
NoBytes == [ok |-> FALSE, bytes |-> <<>>]

\* lopdf Stream::filters: a Name, or an Array of Names.
FilterChain(stream) ==
    LET f == stream.dict.Filter
    IN  IF f.t = "name" THEN [ok |-> TRUE, names |-> <<f.s>>]
        ELSE IF f.t = "arr" /\ \A i \in 1 .. Len(f.items) : f.items[i].t = "name"
        THEN [ok |-> TRUE, names |-> [i \in 1 .. Len(f.items) |-> f.items[i].s]]
        ELSE [ok |-> FALSE, names |-> <<>>]

RECURSIVE InflateChain(_, _)
InflateChain(names, content) ==
    IF names = <<>> THEN Bytes(content)
    ELSE IF Head(names) # "FlateDecode" THEN NoBytes
    ELSE LET r == ZlibDecode(content)
         IN  IF r.ok THEN InflateChain(Tail(names), r.bytes) ELSE NoBytes

(***************************************************************************)
(* stream.decompressed_content(), the filter-chain decompressor of lopdf.  *)
(* It decodes a non-empty chain of FlateDecode steps and no DCTDecode      *)
(* step.  libOk = FALSE stands for the library refusing a stream whose     *)
(* chain it could decode (it insists on structural metadata, such as the   *)
(* DecodeParms of a predictor, that the stream does not satisfy).          *)
(***************************************************************************)
DecompressedContent(stream, libOk) ==
    LET c == FilterChain(stream)
    IN  IF libOk /\ c.ok /\ c.names # <<>>
        THEN InflateChain(c.names, stream.content)
        ELSE NoBytes

\* lib.rs 10-33
DecompressStream(stream, libOk) ==
    LET r == DecompressedContent(stream, libOk)
        filter == stream.dict.Filter
    IN  IF r.ok THEN r
        ELSE IF filter.t = "name"
        THEN IF filter.s = "FlateDecode"
             THEN ZlibDecode(stream.content)
             ELSE NoBytes
        ELSE NoBytes

(***************************************************************************)
(* process_image_object, stage by stage.                                   *)
(***************************************************************************)
NoId == [some |-> FALSE, id |-> 0]
SomeId(i) == [some |-> TRUE, id |-> i]

\* lib.rs 50-53
SMaskOf(stream) ==
    IF stream.dict.SMask.t = "ref" THEN SomeId(stream.dict.SMask.id) ELSE NoId

\* An item resolver that puts Null for a reference to an absent identifier.
ResolveItemOrNull(d, item) ==
    IF item.t = "ref" THEN (IF item.id \in DOMAIN d THEN d[item.id] ELSE Null) ELSE item

\* lib.rs 65-76: one element of a Filter or DecodeParms array.
ResolveItem(d, item) ==
    IF item.t = "ref" /\ item.id \in DOMAIN d THEN d[item.id] ELSE item

\* A resolver whose fall-through arm writes Null back instead of nothing.
ResolveEntryAlways(d, entry) ==
    IF entry.t = "ref"
    THEN [some |-> TRUE, val |-> IF entry.id \in DOMAIN d THEN d[entry.id] ELSE Null]
    ELSE IF entry.t = "arr"
    THEN [some |-> TRUE,
          val |-> Arr([i \in 1 .. Len(entry.items) |-> ResolveItem(d, entry.items[i])])]
    ELSE [some |-> TRUE, val |-> Null]

\* lib.rs 60-84 and 90-114: Some(value) to write back, or None.
ResolveEntry(d, entry) ==
    IF entry.t = "ref"
    THEN [some |-> TRUE, val |-> IF entry.id \in DOMAIN d THEN d[entry.id] ELSE Null]
    ELSE IF entry.t = "arr"
    THEN [some |-> \E i \in 1 .. Len(entry.items) :
                       entry.items[i].t = "ref" /\ entry.items[i].id \in DOMAIN d,
          val |-> Arr([i \in 1 .. Len(entry.items) |-> ResolveItem(d, entry.items[i])])]
    ELSE [some |-> FALSE, val |-> Null]

\* A resolver that takes a referenced object out of the document instead of
\* cloning it: the identifier is left holding Null.
WithResolvedTaken(d, id) ==
    LET s == d[id]
        f == ResolveEntry(d, s.dict.Filter)
        p == ResolveEntry(d, s.dict.DecodeParms)
        dict1 == IF f.some THEN [s.dict EXCEPT !.Filter = f.val] ELSE s.dict
        dict2 == IF p.some THEN [dict1 EXCEPT !.DecodeParms = p.val] ELSE dict1
    IN  [i \in DOMAIN d |->
            IF i = id THEN Stream(dict2, s.content)
            ELSE IF s.dict.Filter = Ref(i) \/ s.dict.DecodeParms = Ref(i) THEN Null
            ELSE d[i]]

\* lib.rs 58-129: the document with the stream's Filter and DecodeParms resolved.
WithResolved(d, id) ==
    LET s == d[id]
        f == ResolveEntry(d, s.dict.Filter)
        p == ResolveEntry(d, s.dict.DecodeParms)
        dict1 == IF f.some THEN [s.dict EXCEPT !.Filter = f.val] ELSE s.dict
        dict2 == IF p.some THEN [dict1 EXCEPT !.DecodeParms = p.val] ELSE dict1
    IN  [d EXCEPT ![id] = Stream(dict2, s.content)]

\* lib.rs 142-149
IsJpeg(filter) ==
    IF filter.t = "name" THEN filter.s = "DCTDecode"
    ELSE IF filter.t = "arr"
    THEN \E i \in 1 .. Len(filter.items) :
             filter.items[i].t = "name" /\ filter.items[i].s = "DCTDecode"
    ELSE FALSE

\* lib.rs 155-165
ImageContent(stream, libOk) ==
    IF IsJpeg(stream.dict.Filter)
    THEN LET r == DecompressedContent(stream, libOk)
         IN  IF r.ok THEN r ELSE Bytes(stream.content)
    ELSE DecompressStream(stream, libOk)

\* lib.rs 170-197
Components(cs, len, w, h) ==
    IF cs.t = "name"
    THEN IF cs.s = "DeviceGray" THEN 1
         ELSE IF cs.s = "DeviceRGB" THEN 3
         ELSE IF cs.s = "DeviceCMYK" THEN 4
         ELSE 3
    ELSE IF len = w * h THEN 1
         ELSE IF len = w * h * 3 THEN 3
         ELSE IF len = w * h * 4 THEN 4
         ELSE 3

\* lib.rs 203-248
Materialize(components, width, height, content) ==
    IF components = 0 THEN LoadFromMemory(content)
    ELSE IF components = 1
    THEN LET r == FromRaw(width, height, 1, content)
             l == LoadFromMemory(content)
         IN  IF r.ok THEN r ELSE IF l.ok THEN Some(ToLuma8(l.img)) ELSE NoImage
    ELSE IF components = 3
    THEN LET r == FromRaw(width, height, 3, content)
             l == LoadFromMemory(content)
         IN  IF r.ok THEN r ELSE IF l.ok THEN Some(ToRgb8(l.img)) ELSE NoImage
    ELSE IF components = 4
    THEN LET l == LoadFromMemory(content)
         IN  IF l.ok THEN l ELSE FromRaw(width, height, 3, CmykToRgb(content))
    ELSE NoImage

\* lib.rs 285-293: the alpha of each pixel is the mask sample at its place;
\* mask.get_pixel panics at a place outside the mask.
MaskOutOfBounds(img, mask) ==
    img.w >= 1 /\ img.h >= 1 /\ (img.w > mask.w \/ img.h > mask.h)

\* A compositor that converts to RGBA and never copies the mask into alpha.
ApplyMaskOpaque(img, mask) == ToRgba8(img)

\* lib.rs 284-293: the RGBA image whose alpha is the mask.
ApplyMask(img, mask) ==
    LET rgba == ToRgba8(img)
    IN  Image(rgba.w, rgba.h, 4,
              [i \in 1 .. rgba.w * rgba.h * 4 |->
                  LET q == (i - 1) \div 4
                      c == ((i - 1) % 4) + 1
                      x == q % rgba.w
                      y == q \div rgba.w
                  IN  IF c = 4 THEN mask.px[y * mask.w + x + 1] ELSE rgba.px[i]])

\* lib.rs 258-295: res is "ok", "err" (an Err is returned) or "panic".
Composite(d, smask, img, width, height, libOk) ==
    IF ~smask.some THEN [res |-> "ok", img |-> img]
    ELSE LET m == Get(d, smask.id)
         IN  IF ~IsStream(m) THEN [res |-> "err", img |-> img]
             ELSE LET c == DecompressStream(m, libOk)
                      mw == AsU32(m.dict.Width)
                      mh == AsU32(m.dict.Height)
                      mask == FromRaw(mw, mh, 1, c.bytes)
                  IN  IF ~c.ok THEN [res |-> "err", img |-> img]
                      ELSE IF mw = width /\ mh = height
                      THEN IF ~mask.ok THEN [res |-> "err", img |-> img]
                           ELSE IF MaskOutOfBounds(img, mask.img)
                           THEN [res |-> "panic", img |-> img]
                           ELSE [res |-> "ok", img |-> ApplyMask(img, mask.img)]
                      ELSE [res |-> "ok", img |-> img]

\* lib.rs 330-335
RgbPlane(rgba) ==
    Image(rgba.w, rgba.h, 3,
          [i \in 1 .. rgba.w * rgba.h * 3 |->
              rgba.px[((i - 1) \div 3) * 4 + ((i - 1) % 3) + 1]])

AlphaPlane(rgba) == [p \in 1 .. rgba.w * rgba.h |-> rgba.px[p * 4]]

\* An image writer of the transparent path that leaves Width and Height as they
\* were.
WriteSplitImageKeepDims(stream, buffer, w, h) ==
    Stream([stream.dict EXCEPT !.Length = Integer(Len(buffer)),
                               !.Filter = Name("DCTDecode"),
                               !.ColorSpace = Name("DeviceRGB"),
                               !.BitsPerComponent = Integer(8),
                               !.DecodeParms = NoEntry,
                               !.Decode = NoEntry],
           buffer)

\* lib.rs 342-358: the image stream of the transparent path.
WriteSplitImage(stream, buffer, w, h) ==
    Stream([stream.dict EXCEPT !.Length = Integer(Len(buffer)),
                               !.Filter = Name("DCTDecode"),
                               !.Width = Integer(w),
                               !.Height = Integer(h),
                               !.ColorSpace = Name("DeviceRGB"),
                               !.BitsPerComponent = Integer(8),
                               !.DecodeParms = NoEntry,
                               !.Decode = NoEntry],
           buffer)

\* A mask writer that replaces the content and leaves Length as it was.
WriteMaskStaleLength(stream, compressed_mask, w, h) ==
    Stream([stream.dict EXCEPT !.Filter = Name("FlateDecode"),
                               !.Width = Integer(w),
                               !.Height = Integer(h),
                               !.ColorSpace = Name("DeviceGray"),
                               !.BitsPerComponent = Integer(8),
                               !.DecodeParms = NoEntry,
                               !.Decode = NoEntry],
           compressed_mask)

\* lib.rs 367-383: the mask stream of the transparent path.
WriteMask(stream, compressed_mask, w, h) ==
    Stream([stream.dict EXCEPT !.Filter = Name("FlateDecode"),
                               !.Width = Integer(w),
                               !.Height = Integer(h),
                               !.ColorSpace = Name("DeviceGray"),
                               !.BitsPerComponent = Integer(8),
                               !.DecodeParms = NoEntry,
                               !.Decode = NoEntry,
                               !.Length = Integer(Len(compressed_mask))],
           compressed_mask)

\* lib.rs 393-407: the image stream of the opaque path.
WriteOpaqueImage(stream, buffer, w, h) ==
    Stream([stream.dict EXCEPT !.Length = Integer(Len(buffer)),
                               !.Filter = Name("DCTDecode"),
                               !.Width = Integer(w),
                               !.Height = Integer(h),
                               !.ColorSpace = Name("DeviceRGB"),
                               !.BitsPerComponent = Integer(8),
                               !.DecodeParms = NoEntry],
           buffer)

\* lib.rs 321: the transparent path is taken when the image names a mask.
SplitPath(smask, img) == smask.some

\* What a call gives: res is "ok" (Ok(actions)), "err" (Err) or "panic"; doc is
\* the document it leaves; wrote is the set of streams it rewrote.
\* dec and enc are the dimensions of the image as decoded and as encoded.
Outcome(res, d, actions, wrote, dec, enc) ==
    [res |-> res, doc |-> d, actions |-> actions, wrote |-> wrote,
     dec |-> dec, enc |-> enc]
NoDims == <<0, 0>>

\* lib.rs 342-384: the two streams of the transparent path are written.
WriteSplit(d, object_id, smask, w, h, actions, dec, buffer, compressed_mask) ==
    IF ~buffer.ok THEN Outcome("err", d, <<>>, {}, dec, <<w, h>>)
    ELSE IF IsStream(Get(d, smask.id)) /\ smask.id # object_id
    THEN Outcome("ok",
                 [d EXCEPT ![object_id] = WriteSplitImage(d[object_id], buffer.bytes, w, h),
                           ![smask.id] = WriteMask(d[smask.id], compressed_mask, w, h)],
                 actions, {object_id, smask.id}, dec, <<w, h>>)
    ELSE IF smask.id = object_id
    THEN Outcome("ok",
                 [d EXCEPT ![object_id] =
                     WriteMask(WriteSplitImage(d[object_id], buffer.bytes, w, h),
                               compressed_mask, w, h)],
                 actions, {object_id}, dec, <<w, h>>)
    ELSE Outcome("ok",
                 [d EXCEPT ![object_id] = WriteSplitImage(d[object_id], buffer.bytes, w, h)],
                 actions, {object_id}, dec, <<w, h>>)

\* lib.rs 324-365: the planes of the transparent path and their encodings.
EncodeSplit(d, object_id, smask, quality, actions, dec, rgba) ==
    WriteSplit(d, object_id, smask, rgba.w, rgba.h, actions, dec,
               JpegEncode(RgbPlane(rgba), quality), ZlibEncode(AlphaPlane(rgba)))

\* lib.rs 393-414: the stream of the opaque path is written.
WriteOpaque(d, object_id, w, h, actions, dec, buffer) ==
    IF ~buffer.ok THEN Outcome("err", d, <<>>, {}, dec, <<w, h>>)
    ELSE Outcome("ok",
                 [d EXCEPT ![object_id] = WriteOpaqueImage(d[object_id], buffer.bytes, w, h)],
                 actions, {object_id}, dec, <<w, h>>)

\* lib.rs 321-415
ReEncode(d, object_id, smask, img, quality, actions, dec) ==
    IF SplitPath(smask, img)
    THEN EncodeSplit(d, object_id, smask, quality,
                     actions \o <<"re-encode: Split RGB(JPEG) + Alpha(Flate)">>, dec,
                     ToRgba8(img))
    ELSE WriteOpaque(d, object_id, img.w, img.h, actions \o <<"re-encode: JPEG">>, dec,
                     JpegEncode(img, quality))

\* lib.rs 298-415: the resized image goes on to be re-encoded.
Resized(d, object_id, smask, quality, actions, dec, resized) ==
    ReEncode(d, object_id, smask, resized.img, quality,
             actions \o (IF resized.resized THEN <<"resize">> ELSE <<"keep dims">>), dec)

\* lib.rs 258-309: the outcome of the mask handling decides whether the call goes on.
Masked(d, object_id, smask, quality, max_dim, actions, dec, masked) ==
    IF masked.res # "ok" THEN Outcome(masked.res, d, <<>>, {}, dec, NoDims)
    ELSE Resized(d, object_id, smask, quality, actions, dec, Resize(masked.img, max_dim))

\* lib.rs 203-295: the decoded image, or the error of the decoding.
Decoded(d, object_id, smask, quality, max_dim, libMask, actions, width, height, decoded) ==
    IF ~decoded.ok THEN Outcome("err", d, <<>>, {}, NoDims, NoDims)
    ELSE Masked(d, object_id, smask, quality, max_dim,
                actions \o (IF smask.some THEN <<"applied SMask">> ELSE <<>>),
                <<decoded.img.w, decoded.img.h>>,
                Composite(d, smask, decoded.img, width, height, libMask))

\* lib.rs 167-248: the component count and the decoding of the content.
WithComponents(d, object_id, smask, quality, max_dim, libMask, actions, width, height, content, components) ==
    Decoded(d, object_id, smask, quality, max_dim, libMask,
            actions \o (IF components = 4 THEN <<"CMYK->RGB">> ELSE <<>>),
            width, height, Materialize(components, width, height, content))

\* lib.rs 155-200: the content of the image stream, or the error of decompress_stream.
WithContent(d, object_id, smask, quality, max_dim, libMask, stream, content) ==
    IF ~content.ok THEN Outcome("err", d, <<>>, {}, NoDims, NoDims)
    ELSE WithComponents(d, object_id, smask, quality, max_dim, libMask,
                        IF IsJpeg(stream.dict.Filter) THEN <<"was JPEG">> ELSE <<>>,
                        AsU32(stream.dict.Width), AsU32(stream.dict.Height),
                        content.bytes,
                        Components(stream.dict.ColorSpace, Len(content.bytes),
                                   AsU32(stream.dict.Width), AsU32(stream.dict.Height)))

\* lib.rs 131-418: the call from the resolved document on.
FromResolved(d, object_id, smask, quality, max_dim, libImg, libMask) ==
    WithContent(d, object_id, smask, quality, max_dim, libMask, d[object_id],
                ImageContent(d[object_id], libImg))

\* lib.rs 35-418.  libImg and libMask are the answers of the library's
\* filter-chain decompressor for the image and for its mask.
ProcessImageObject(d, object_id, quality, max_dim, libImg, libMask) ==
    IF ~IsStream(Get(d, object_id)) THEN Outcome("err", d, <<>>, {}, NoDims, NoDims)
    ELSE FromResolved(WithResolved(d, object_id), object_id, SMaskOf(d[object_id]),
                      quality, max_dim, libImg, libMask)

(***************************************************************************)
(* The drivers: main (main.rs 33-192) and compress_pdf (lib.rs 421-487).   *)
(***************************************************************************)
VARIABLES
    driver,               \* "main" or "compress_pdf"
    quality,              \* args.quality / quality
    max_dim,              \* args.max_dim / max_dim
    doc,                  \* the Document
    pc,                   \* "load", "count", "loop", "done", "failed", or the place of
                          \* a part run on its own: "resize", "decompress", "resolve"
    error,                \* what ended the run: "none", "load", "save", "panic"
    object_ids,           \* the snapshot of doc.objects.keys()
    pos,                  \* the place of the loop in object_ids
    processed_ids,        \* the HashSet of the loop
    total_images,         \* main.rs 67
    current_image_index,  \* main.rs 111
    images_processed,     \* main.rs 60
    calls,                \* history: how often each identifier was submitted
    last,                 \* history: the last call of process_image_object
    rz,                   \* the input and output of the resizer on its own
    dst                   \* the input and output of decompress_stream on its own

vars == <<driver, quality, max_dim, doc, pc, error, object_ids, pos, processed_ids,
          total_images, current_image_index, images_processed, calls, last, rz, dst>>

RECURSIVE SortedKeys(_)
SortedKeys(S) ==
    IF S = {} THEN <<>>
    ELSE LET m == CHOOSE x \in S : \A y \in S : x <= y
         IN  <<m>> \o SortedKeys(S \ {m})

\* main.rs 119-141, lib.rs 446-468
Classify(d, object_id) ==
    LET o == Get(d, object_id)
    IN  IF IsStream(o) /\ o.dict.Subtype.t = "name" /\ o.dict.Subtype.s = "Image"
        THEN [is_image |-> TRUE, smask_id |-> SMaskOf(o)]
        ELSE [is_image |-> FALSE, smask_id |-> NoId]

\* main.rs 66-106: the first pass, which counts the images to process.
RECURSIVE CountPass(_, _, _)
CountPass(d, ids, processed_ids_check) ==
    IF ids = <<>> THEN 0
    ELSE LET object_id == Head(ids)
             c == Classify(d, object_id)
         IN  IF object_id \in processed_ids_check
             THEN CountPass(d, Tail(ids), processed_ids_check)
             ELSE IF c.is_image
             THEN 1 + CountPass(d, Tail(ids),
                                processed_ids_check \cup {object_id} \cup
                                (IF c.smask_id.some THEN {c.smask_id.id} ELSE {}))
             ELSE CountPass(d, Tail(ids), processed_ids_check)

NoCall == [id |-> 0, res |-> "none", pre |-> <<>>, actions |-> <<>>, wrote |-> {},
           dec |-> <<0, 0>>, enc |-> <<0, 0>>, max_dim |-> 0]

\* A driver that leaves a failed identifier in place to be tried again.
AfterCallRetry(p, processed, object_id, smask_id, res) ==
    IF res = "err"
    THEN [pos |-> p, processed_ids |-> processed]
    ELSE [pos |-> p + 1,
          processed_ids |-> processed \cup {object_id} \cup
                            (IF smask_id.some THEN {smask_id.id} ELSE {})]

\* main.rs 146-148 and 172-173, lib.rs 471-473 and 478: the mask and then the
\* image are marked as processed, and the loop moves to the next identifier.
AfterCall(p, processed, object_id, smask_id, res) ==
    [pos |-> p + 1,
     processed_ids |-> processed \cup {object_id} \cup
                       (IF smask_id.some THEN {smask_id.id} ELSE {})]
NoResize == [w |-> 0, h |-> 0, max_dim |-> 0, done |-> FALSE, ow |-> 0, oh |-> 0]
NoDecompress == [stream |-> Absent, libOk |-> FALSE, done |-> FALSE, out |-> NoBytes]

\* main.rs 44-64, lib.rs 426-439: the document is loaded and the snapshot taken.
LoadOk ==
    /\ pc = "load"
    /\ object_ids' = SortedKeys(DOMAIN doc)
    /\ pc' = IF driver = "main" THEN "count" ELSE "loop"
    /\ UNCHANGED <<driver, quality, max_dim, doc, error, pos, processed_ids, total_images,
                   current_image_index, images_processed, calls, last, rz, dst>>

\* main.rs 44, lib.rs 426-427: the load fails and the run ends.
LoadFail ==
    /\ pc = "load"
    /\ pc' = "failed"
    /\ error' = "load"
    /\ UNCHANGED <<driver, quality, max_dim, doc, object_ids, pos, processed_ids,
                   total_images, current_image_index, images_processed, calls, last, rz, dst>>

\* main.rs 66-111
CountImages ==
    /\ pc = "count"
    /\ total_images' = CountPass(doc, object_ids, {})
    /\ pc' = "loop"
    /\ UNCHANGED <<driver, quality, max_dim, doc, error, object_ids, pos, processed_ids,
                   current_image_index, images_processed, calls, last, rz, dst>>

\* main.rs 114-116, lib.rs 442-444
SkipProcessed ==
    /\ pc = "loop"
    /\ pos <= Len(object_ids)
    /\ object_ids[pos] \in processed_ids
    /\ pos' = pos + 1
    /\ UNCHANGED <<driver, quality, max_dim, doc, pc, error, object_ids, processed_ids,
                   total_images, current_image_index, images_processed, calls, last, rz, dst>>

\* main.rs 119-143, lib.rs 446-470: the object is no image.
SkipNonImage ==
    /\ pc = "loop"
    /\ pos <= Len(object_ids)
    /\ object_ids[pos] \notin processed_ids
    /\ ~Classify(doc, object_ids[pos]).is_image
    /\ pos' = pos + 1
    /\ UNCHANGED <<driver, quality, max_dim, doc, pc, error, object_ids, processed_ids,
                   total_images, current_image_index, images_processed, calls, last, rz, dst>>

\* main.rs 143-173, lib.rs 470-479: the image is submitted to process_image_object.
\* A panic inside the call unwinds through the driver and ends the run.
SubmitImage ==
    /\ pc = "loop"
    /\ pos <= Len(object_ids)
    /\ object_ids[pos] \notin processed_ids
    /\ Classify(doc, object_ids[pos]).is_image
    /\ \E libImg \in BOOLEAN, libMask \in BOOLEAN :
          LET object_id == object_ids[pos]
              smask_id == Classify(doc, object_id).smask_id
              out == ProcessImageObject(doc, object_id, quality, max_dim, libImg, libMask)
              after == AfterCall(pos, processed_ids, object_id, smask_id, out.res)
          IN  /\ current_image_index' =
                     IF driver = "main" THEN current_image_index + 1
                     ELSE current_image_index
              /\ calls' = [calls EXCEPT ![object_id] = @ + 1]
              /\ last' = [id |-> object_id, res |-> out.res, pre |-> doc,
                          actions |-> out.actions, wrote |-> out.wrote,
                          dec |-> out.dec, enc |-> out.enc, max_dim |-> max_dim]
              /\ doc' = out.doc
              /\ IF out.res = "panic"
                 THEN /\ pc' = "failed"
                      /\ error' = "panic"
                      /\ UNCHANGED <<pos, processed_ids, images_processed>>
                 ELSE /\ pos' = after.pos
                      /\ processed_ids' = after.processed_ids
                      /\ images_processed' =
                             IF driver = "main" /\ out.res = "ok"
                             THEN images_processed + 1
                             ELSE images_processed
                      /\ UNCHANGED <<pc, error>>
    /\ UNCHANGED <<driver, quality, max_dim, object_ids, total_images, rz, dst>>

\* main.rs 177-191, lib.rs 482-486
SaveOk ==
    /\ pc = "loop"
    /\ pos > Len(object_ids)
    /\ pc' = "done"
    /\ UNCHANGED <<driver, quality, max_dim, doc, error, object_ids, pos, processed_ids,
                   total_images, current_image_index, images_processed, calls, last, rz, dst>>

\* main.rs 177, lib.rs 483-484: the save fails and the run ends.
SaveFail ==
    /\ pc = "loop"
    /\ pos > Len(object_ids)
    /\ pc' = "failed"
    /\ error' = "save"
    /\ UNCHANGED <<driver, quality, max_dim, doc, object_ids, pos, processed_ids,
                   total_images, current_image_index, images_processed, calls, last, rz, dst>>

Next ==
    \/ LoadOk
    \/ LoadFail
    \/ CountImages
    \/ SkipProcessed
    \/ SkipNonImage
    \/ SubmitImage
    \/ SaveOk
    \/ SaveFail

(***************************************************************************)
(* The documents a run starts from.  A document holds an image (the        *)
(* owner) and a second object at identifiers 1 and 2, in either order, and *)
(* further objects at the identifiers after them.  The owner varies in     *)
(* colour space, filter entry, DecodeParms and Decode entries, dimensions  *)
(* and the soundness of its content; its SMask entry is absent, or names   *)
(* the second object (a mask stream), itself, a further object or no       *)
(* object of the document.                                                 *)
(***************************************************************************)
Pixels(n) == [i \in 1 .. n |-> (i * 37 + 11) % 256]
AlphaSamples(n) == [i \in 1 .. n |-> (i * 50 + 5) % 256]
Garbage == <<0, 9>>

Shape(cs, filter, bad, extras) ==
    [cs |-> cs, filter |-> filter, bad |-> bad, extras |-> extras]

OwnerShapes ==
    { Shape("DeviceRGB", "flate", FALSE, "none"),
      Shape("DeviceGray", "flate", FALSE, "none"),
      Shape("DeviceCMYK", "flate", FALSE, "none"),
      Shape("none", "flate", FALSE, "none"),
      Shape("DeviceRGB", "dct", FALSE, "none"),
      Shape("DeviceCMYK", "dctbig", FALSE, "none"),
      Shape("DeviceCMYK", "dctsmall", FALSE, "none"),
      Shape("DeviceRGB", "flate", TRUE, "none"),
      Shape("DeviceRGB", "ref", FALSE, "none"),
      Shape("DeviceRGB", "ref", TRUE, "none"),
      Shape("DeviceRGB", "refdangling", FALSE, "none"),
      Shape("DeviceRGB", "arr", FALSE, "none"),
      Shape("DeviceRGB", "arrref", FALSE, "none"),
      Shape("DeviceRGB", "arrmixed", FALSE, "none"),
      Shape("DeviceRGB", "raw", FALSE, "none"),
      Shape("DeviceRGB", "flate", FALSE, "both"),
      Shape("DeviceRGB", "flate", FALSE, "parmsref"),
      Shape("DeviceGray", "flate", FALSE, "both") }

\* The dimensions every shape takes, and those only the plain shapes take.
MainDims == {<<1, 1>>, <<MaxSide, 1>>, <<MaxSide, MaxSide>>}
EdgeDims == {<<0, MaxSide>>, <<MaxSide, 0>>, <<0, 0>>, <<1, MaxSide>>}
PlainShape(shape) == shape.filter = "flate" /\ ~shape.bad /\ shape.extras = "none"
\* The shapes that take every mask; the others take no mask or a sound one.
MaskedShape(shape) == PlainShape(shape) \/ shape.filter \in {"dct", "dctbig", "dctsmall"}

FilterEntry(kind) ==
    IF kind = "flate" THEN Name("FlateDecode")
    ELSE IF kind \in {"dct", "dctbig", "dctsmall"} THEN Name("DCTDecode")
    ELSE IF kind = "ref" THEN Ref(NumIds)
    ELSE IF kind = "refdangling" THEN Ref(DanglingId)
    ELSE IF kind = "arr" THEN Arr(<<Name("FlateDecode")>>)
    ELSE IF kind = "arrref" THEN Arr(<<Ref(NumIds)>>)
    ELSE IF kind = "arrmixed" THEN Arr(<<Ref(DanglingId), Ref(NumIds)>>)
    ELSE NoEntry

ParmsEntry(extras) ==
    IF extras = "both" THEN Dict("Predictor")
    ELSE IF extras = "parmsref" THEN Ref(NumIds)
    ELSE NoEntry

DecodeEntry(extras) ==
    IF extras = "both" THEN Arr(<<Integer(1), Integer(0)>>) ELSE NoEntry

Channels(cs) == IF cs = "DeviceGray" THEN 1 ELSE IF cs = "DeviceCMYK" THEN 4 ELSE 3

ShapeContent(shape, w, h) ==
    IF shape.bad THEN Garbage
    ELSE IF shape.filter \in {"dct", "dctbig", "dctsmall"}
    THEN JpegEncode(Image(IF shape.filter = "dctbig" THEN w + 1
                          ELSE IF shape.filter = "dctsmall" THEN 1 ELSE w,
                          IF shape.filter = "dctsmall" THEN 1 ELSE h,
                          IF shape.cs = "DeviceGray" THEN 1 ELSE 3,
                          Pixels((w + 1) * h * 3)), 100).bytes
    ELSE IF shape.filter = "raw" THEN Pixels(w * h * Channels(shape.cs))
    ELSE ZlibEncode(Pixels(w * h * Channels(shape.cs)))

StreamOf(subtype, smask, filter, parms, decode, cs, w, h, content) ==
    Stream([Subtype |-> subtype, SMask |-> smask, Filter |-> filter,
            DecodeParms |-> parms, Decode |-> decode,
            Width |-> IF w = 0 THEN NoEntry ELSE Integer(w),
            Height |-> IF h = 0 THEN NoEntry ELSE Integer(h),
            ColorSpace |-> IF cs = "none" THEN NoEntry ELSE Name(cs),
            BitsPerComponent |-> Integer(8),
            Length |-> Integer(Len(content))],
           content)

OwnerStream(shape, w, h, smask) ==
    StreamOf(Name("Image"), smask, FilterEntry(shape.filter), ParmsEntry(shape.extras),
             DecodeEntry(shape.extras), shape.cs, w, h, ShapeContent(shape, w, h))

MaskKind(dims, kind, subtype) == [dims |-> dims, kind |-> kind, subtype |-> subtype]

MaskChoices ==
    { MaskKind(d, "good", TRUE) : d \in {"none", "self", "dangling", "further"} } \cup
    { MaskKind(d, k, TRUE) : d \in {"same", "diff"}, k \in {"good", "bad", "extras"} } \cup
    { MaskKind("same", "good", FALSE) }

BasicMasks == {MaskKind("none", "good", TRUE), MaskKind("same", "good", TRUE)}

MaskStream(m, w, h) ==
    LET mw == IF m.dims = "same" THEN w ELSE w + 1
    IN  StreamOf(IF m.subtype THEN Name("Image") ELSE NoEntry, NoEntry,
                 Name("FlateDecode"),
                 IF m.kind = "extras" THEN Dict("Predictor") ELSE NoEntry,
                 IF m.kind = "extras" THEN Arr(<<Integer(0), Integer(1)>>) ELSE NoEntry,
                 "DeviceGray", mw, h,
                 IF m.kind = "bad" THEN Garbage ELSE ZlibEncode(AlphaSamples(mw * h)))

\* A stream that is no image, and the objects a further identifier may hold.
FormStream ==
    StreamOf(Name("Form"), NoEntry, Name("FlateDecode"), NoEntry, NoEntry, "none", 0, 0,
             ZlibEncode(<<1, 2, 3>>))
PlainImage == OwnerStream(Shape("DeviceRGB", "flate", FALSE, "none"), 1, 1, NoEntry)
FurtherObjects == {Name("FlateDecode"), PlainImage}

Cases ==
    { c \in [shape : OwnerShapes, dims : MainDims \cup EdgeDims, mask : MaskChoices,
             a : {1, 2}, further : FurtherObjects] :
        /\ c.dims \in MainDims \/ PlainShape(c.shape)
        /\ c.mask \in BasicMasks \/ MaskedShape(c.shape) }

BuildDoc(c) ==
    LET b == 3 - c.a
        w == c.dims[1]
        h == c.dims[2]
        smask == IF c.mask.dims = "none" THEN NoEntry
                 ELSE IF c.mask.dims = "self" THEN Ref(c.a)
                 ELSE IF c.mask.dims = "dangling" THEN Ref(DanglingId)
                 ELSE IF c.mask.dims = "further" THEN Ref(NumIds)
                 ELSE Ref(b)
    IN  [i \in Ids |->
            IF i = c.a THEN OwnerStream(c.shape, w, h, smask)
            ELSE IF i = b
            THEN IF c.mask.dims \in {"none", "self", "dangling", "further"}
                 THEN FormStream
                 ELSE MaskStream(c.mask, w, h)
            ELSE c.further]

Drivers == {"main", "compress_pdf"}
\* main.rs 21: the default quality, and the best one.
Qualities == {50, 100}

Init ==
    /\ driver \in Drivers
    /\ quality \in Qualities
    /\ max_dim \in 0 .. MaxSide
    /\ \E c \in Cases : doc = BuildDoc(c)
    /\ pc = "load"
    /\ error = "none"
    /\ object_ids = <<>>
    /\ pos = 1
    /\ processed_ids = {}
    /\ total_images = 0
    /\ current_image_index = 0
    /\ images_processed = 0
    /\ calls = [i \in Ids |-> 0]
    /\ last = NoCall
    /\ rz = NoResize
    /\ dst = NoDecompress

Spec == Init /\ [][Next]_vars

(***************************************************************************)
(* The resizer on its own (lib.rs 298-311): a decoded image of any         *)
(* dimensions up to MaxW and any bound up to MaxW.                         *)
(***************************************************************************)
InitResize ==
    /\ driver = "main"
    /\ quality = 50
    /\ max_dim = 0
    /\ doc = <<>>
    /\ pc = "resize"
    /\ error = "none"
    /\ object_ids = <<>>
    /\ pos = 1
    /\ processed_ids = {}
    /\ total_images = 0
    /\ current_image_index = 0
    /\ images_processed = 0
    /\ calls = [i \in Ids |-> 0]
    /\ last = NoCall
    /\ rz \in [w : 0 .. MaxW, h : 0 .. MaxW, max_dim : 0 .. MaxW, done : {FALSE},
               ow : {0}, oh : {0}]
    /\ dst = NoDecompress

\* lib.rs 298-311
ResizeStep ==
    /\ pc = "resize"
    /\ ~rz.done
    /\ LET r == Resize(Image(rz.w, rz.h, 1, [i \in 1 .. rz.w * rz.h |-> 0]), rz.max_dim)
       IN  rz' = [rz EXCEPT !.done = TRUE, !.ow = r.img.w, !.oh = r.img.h]
    /\ UNCHANGED <<driver, quality, max_dim, doc, pc, error, object_ids, pos,
                   processed_ids, total_images, current_image_index, images_processed,
                   calls, last, dst>>

NextResize == ResizeStep

SpecResize == InitResize /\ [][NextResize]_vars

(***************************************************************************)
(* decompress_stream on its own (lib.rs 10-33): a stream with any of the   *)
(* Filter entries below and any of the contents below, and either answer   *)
(* of the library's decompressor.                                          *)
(***************************************************************************)
DecompressFilters ==
    { Name("FlateDecode"), Name("DCTDecode"), Name("LZWDecode"),
      Arr(<<Name("FlateDecode")>>), Arr(<<Name("FlateDecode"), Name("FlateDecode")>>),
      Arr(<<Name("LZWDecode")>>), Arr(<<>>), Null, NoEntry }

DecompressSamples == {<<>>, <<7>>, <<7, 7, 9>>, <<1, 2, 3, 4>>}

DecompressContents ==
    { ZlibEncode(b) : b \in DecompressSamples } \cup
    { ZlibEncode(ZlibEncode(b)) : b \in DecompressSamples } \cup
    DecompressSamples \cup {Garbage}

InitDecompress ==
    /\ driver = "main"
    /\ quality = 50
    /\ max_dim = 0
    /\ doc = <<>>
    /\ pc = "decompress"
    /\ error = "none"
    /\ object_ids = <<>>
    /\ pos = 1
    /\ processed_ids = {}
    /\ total_images = 0
    /\ current_image_index = 0
    /\ images_processed = 0
    /\ calls = [i \in Ids |-> 0]
    /\ last = NoCall
    /\ rz = NoResize
    /\ \E f \in DecompressFilters, c \in DecompressContents, libOk \in BOOLEAN :
          dst = [stream |-> StreamOf(Name("Image"), NoEntry, f, NoEntry, NoEntry,
                                     "DeviceGray", 1, 1, c),
                 libOk |-> libOk, done |-> FALSE, out |-> NoBytes]

\* lib.rs 10-33
DecompressStep ==
    /\ pc = "decompress"
    /\ ~dst.done
    /\ dst' = [dst EXCEPT !.done = TRUE, !.out = DecompressStream(dst.stream, dst.libOk)]
    /\ UNCHANGED <<driver, quality, max_dim, doc, pc, error, object_ids, pos,
                   processed_ids, total_images, current_image_index, images_processed,
                   calls, last, rz>>

NextDecompress == DecompressStep

SpecDecompress == InitDecompress /\ [][NextDecompress]_vars

(***************************************************************************)
(* The resolver on its own (lib.rs 58-129): the image is object 1, with    *)
(* any of the entries below as Filter and as DecodeParms; every further    *)
(* identifier holds one of the targets below, and DanglingId holds none.   *)
(***************************************************************************)
ResolverEntries ==
    { NoEntry, Null, Name("FlateDecode"), Dict("Predictor"),
      Ref(NumIds), Ref(DanglingId),
      Arr(<<>>), Arr(<<Name("FlateDecode")>>),
      Arr(<<Ref(NumIds)>>), Arr(<<Ref(DanglingId)>>),
      Arr(<<Ref(DanglingId), Ref(NumIds)>>),
      Arr(<<Name("FlateDecode"), Ref(NumIds), Ref(DanglingId)>>) }

ResolverTargets == {Name("FlateDecode"), Dict("Predictor"), Arr(<<Name("FlateDecode")>>)}

InitResolve ==
    /\ driver = "main"
    /\ quality = 50
    /\ max_dim = 0
    /\ \E f \in ResolverEntries, p \in ResolverEntries, target \in ResolverTargets :
          doc = [i \in Ids |->
                    IF i = 1
                    THEN StreamOf(Name("Image"), NoEntry, f, p, NoEntry, "DeviceGray", 1, 1,
                                  ZlibEncode(Pixels(1)))
                    ELSE target]
    /\ pc = "resolve"
    /\ error = "none"
    /\ object_ids = <<>>
    /\ pos = 1
    /\ processed_ids = {}
    /\ total_images = 0
    /\ current_image_index = 0
    /\ images_processed = 0
    /\ calls = [i \in Ids |-> 0]
    /\ last = NoCall
    /\ rz = NoResize
    /\ dst = NoDecompress

\* lib.rs 58-129
ResolveStep ==
    /\ pc = "resolve"
    /\ doc' = WithResolved(doc, 1)
    /\ last' = [NoCall EXCEPT !.id = 1, !.res = "resolved", !.pre = doc]
    /\ pc' = "resolved"
    /\ UNCHANGED <<driver, quality, max_dim, error, object_ids, pos, processed_ids,
                   total_images, current_image_index, images_processed, calls, rz, dst>>

NextResolve == ResolveStep

SpecResolve == InitResolve /\ [][NextResolve]_vars

(***************************************************************************)
(* The claims.                                                             *)
(***************************************************************************)
Called == last.res # "none"
\* The image of the last call before and after it, and the mask it names.
ImageBefore == last.pre[last.id]
ImageAfter == doc[last.id]
MaskId == SMaskOf(ImageBefore)
MaskIsStream == MaskId.some /\ IsStream(Get(last.pre, MaskId.id))
MaskBefore == last.pre[MaskId.id]
MaskAfter == doc[MaskId.id]
SameDims(a, b) ==
    /\ AsU32(a.dict.Width) = AsU32(b.dict.Width)
    /\ AsU32(a.dict.Height) = AsU32(b.dict.Height)
Tags == {last.actions[i] : i \in 1 .. Len(last.actions)}
SplitTag == "re-encode: Split RGB(JPEG) + Alpha(Flate)"
DictKeys == {"Subtype", "SMask", "Filter", "DecodeParms", "Decode", "Width", "Height",
             "ColorSpace", "BitsPerComponent", "Length"}

\* C1: in one pass of either driver, every object identifier is submitted to
\* process_image_object at most once.
C1_SubmittedAtMostOnce == \A i \in Ids : calls[i] <= 1

C1_Witness == pc = "done" /\ Cardinality({i \in Ids : calls[i] = 1}) >= 2

\* C2: a mask that is the target of another image's SMask reference is never
\* submitted on its own, whatever the order of the identifiers.
C2_ClaimedMaskNeverSubmitted ==
    \A m \in DOMAIN doc :
        (\E o \in DOMAIN doc \ {m} :
            /\ Classify(doc, o).is_image
            /\ Classify(doc, o).smask_id = SomeId(m))
        => calls[m] = 0

ResolvedFrom(d, before, after) ==
    IF before.t = "ref"
    THEN after = (IF before.id \in DOMAIN d THEN d[before.id] ELSE Null)
    ELSE IF before.t = "arr"
    THEN /\ after.t = "arr"
         /\ Len(after.items) = Len(before.items)
         /\ \A i \in 1 .. Len(before.items) :
                after.items[i] =
                    (IF before.items[i].t = "ref" /\ before.items[i].id \in DOMAIN d
                     THEN d[before.items[i].id]
                     ELSE before.items[i])
    ELSE after = before

C4_OnlyLoadAndSaveEndTheRun ==
    /\ pc = "failed" => error \in {"load", "save"}
    /\ pc = "done" => pos = Len(object_ids) + 1

\* C5: an image whose mask stream has another Width or Height is processed as
\* opaque: the opaque re-encode, no alpha-split action, the mask untouched.
C5_MismatchedMaskIsOpaque ==
    (Called /\ last.res = "ok" /\ MaskIsStream /\ ~SameDims(ImageBefore, MaskBefore)) =>
        /\ "re-encode: JPEG" \in Tags
        /\ SplitTag \notin Tags
        /\ MaskAfter = MaskBefore

\* C6: after a successful call, the Length entry of every stream the call
\* rewrote is the byte length of the stream's content.
C6_LengthIsContentLength ==
    (Called /\ last.res = "ok") =>
        \A i \in last.wrote : doc[i].dict.Length = Integer(Len(doc[i].content))

C6_Witness ==
    /\ Called
    /\ last.res = "ok"
    /\ Cardinality(last.wrote) = 2
    /\ \E i \in last.wrote : Len(doc[i].content) # Len(last.pre[i].content)

\* The dimensions of the data a rewritten stream holds: those the JPEG stream
\* declares, or the number of samples of the inflated plane.
HoldsDims(stream, w, h) ==
    IF stream.dict.Filter = Name("DCTDecode")
    THEN /\ LoadFromMemory(stream.content).ok
         /\ LoadFromMemory(stream.content).img.w = w
         /\ LoadFromMemory(stream.content).img.h = h
    ELSE /\ ZlibDecode(stream.content).ok
         /\ Len(ZlibDecode(stream.content).bytes) = w * h

\* C7: after a successful call, Width and Height of every stream the call rewrote
\* are the dimensions of the data encoded into it, after any resize, and the image
\* and the mask of the transparent path carry the same Width and Height.
C7_DimsAreEncodedDims ==
    (Called /\ last.res = "ok") =>
        \A i \in last.wrote :
            /\ doc[i].dict.Width = Integer(last.enc[1])
            /\ doc[i].dict.Height = Integer(last.enc[2])
            /\ HoldsDims(doc[i], last.enc[1], last.enc[2])
            /\ \A j \in last.wrote : SameDims(doc[i], doc[j])

C7_Witness ==
    /\ Called
    /\ last.res = "ok"
    /\ Cardinality(last.wrote) = 2
    /\ "resize" \in Tags
    /\ last.enc # last.dec

\* C8: after a successful call, on either path, no rewritten stream holds a
\* DecodeParms or a Decode entry.
C8_NoStaleDecodeEntries ==
    (Called /\ last.res = "ok") =>
        \A i \in last.wrote :
            /\ doc[i].dict.DecodeParms = NoEntry
            /\ doc[i].dict.Decode = NoEntry

\* The alpha samples of the mask before the call: its decoded bytes, one per pixel.
AlphaBefore ==
    SubSeq(DecompressStream(MaskBefore, TRUE).bytes, 1,
           AsU32(MaskBefore.dict.Width) * AsU32(MaskBefore.dict.Height))

\* C9 as stated: with a mask of the same Width and Height, for every max_dim, a
\* successful call leaves the image DCTDecode / DeviceRGB and the mask
\* FlateDecode / DeviceGray, and the mask inflates to exactly the width x height
\* alpha samples it held before.
C9_MaskRoundTrip ==
    (Called /\ last.res = "ok" /\ MaskIsStream /\ SameDims(ImageBefore, MaskBefore)) =>
        /\ ImageAfter.dict.Filter = Name("DCTDecode")
        /\ ImageAfter.dict.ColorSpace = Name("DeviceRGB")
        /\ MaskAfter.dict.Filter = Name("FlateDecode")
        /\ MaskAfter.dict.ColorSpace = Name("DeviceGray")
        /\ ZlibDecode(MaskAfter.content) = Bytes(AlphaBefore)

\* C9 as amended: with a mask that is another stream of the same Width and
\* Height, a successful call leaves the image DCTDecode / DeviceRGB and the mask
\* FlateDecode / DeviceGray; the mask inflates to exactly one byte per pixel of
\* the encoded image, and these are the alpha samples it held before whenever the
\* image was decoded at its declared dimensions and not resized.
C9_MaskPlane ==
    (/\ Called
     /\ last.res = "ok"
     /\ MaskIsStream
     /\ MaskId.id # last.id
     /\ SameDims(ImageBefore, MaskBefore)) =>
        /\ ImageAfter.dict.Filter = Name("DCTDecode")
        /\ ImageAfter.dict.ColorSpace = Name("DeviceRGB")
        /\ MaskAfter.dict.Filter = Name("FlateDecode")
        /\ MaskAfter.dict.ColorSpace = Name("DeviceGray")
        /\ ZlibDecode(MaskAfter.content).ok
        /\ Len(ZlibDecode(MaskAfter.content).bytes) = last.enc[1] * last.enc[2]
        /\ (/\ last.dec = <<AsU32(ImageBefore.dict.Width), AsU32(ImageBefore.dict.Height)>>
            /\ last.enc = last.dec)
           => ZlibDecode(MaskAfter.content).bytes = AlphaBefore

C9_Witness ==
    /\ Called
    /\ last.res = "ok"
    /\ MaskIsStream
    /\ MaskId.id # last.id
    /\ SameDims(ImageBefore, MaskBefore)
    /\ last.enc = last.dec
    /\ last.dec = <<MaxSide, MaxSide>>
    /\ ZlibDecode(MaskAfter.content).bytes = AlphaSamples(MaxSide * MaxSide)

\* The smaller side keeps the aspect ratio within one pixel: out differs from
\* side * max_dim / larger by at most 1.
WithinOnePixel(out, side, larger, bound) ==
    /\ out * larger - side * bound <= larger
    /\ side * bound - out * larger <= larger

\* C10 as stated: for every image (w, h) and every max_dim, an image within the
\* bound keeps its dimensions; otherwise the larger output side is max_dim, the
\* smaller keeps the aspect ratio within one pixel, and no side grows.
C10_ResizeBounds ==
    rz.done =>
        IF rz.w <= rz.max_dim /\ rz.h <= rz.max_dim
        THEN rz.ow = rz.w /\ rz.oh = rz.h
        ELSE /\ Max(rz.ow, rz.oh) = rz.max_dim
             /\ WithinOnePixel(rz.ow, rz.w, Max(rz.w, rz.h), rz.max_dim)
             /\ WithinOnePixel(rz.oh, rz.h, Max(rz.w, rz.h), rz.max_dim)
             /\ rz.ow <= rz.w
             /\ rz.oh <= rz.h

\* C10 as amended: the same, for an image with no zero side and a max_dim of at
\* least 1.
C10_ResizeBoundsPositive ==
    (rz.done /\ rz.w >= 1 /\ rz.h >= 1 /\ rz.max_dim >= 1) =>
        IF rz.w <= rz.max_dim /\ rz.h <= rz.max_dim
        THEN rz.ow = rz.w /\ rz.oh = rz.h
        ELSE /\ Max(rz.ow, rz.oh) = rz.max_dim
             /\ WithinOnePixel(rz.ow, rz.w, Max(rz.w, rz.h), rz.max_dim)
             /\ WithinOnePixel(rz.oh, rz.h, Max(rz.w, rz.h), rz.max_dim)
             /\ rz.ow <= rz.w
             /\ rz.oh <= rz.h

C10_Witness ==
    /\ rz.done
    /\ rz.w = MaxW
    /\ rz.h = 1
    /\ rz.max_dim = 2
    /\ rz.ow = 2
    /\ rz.oh = 1

\* A filter chain of exactly one FlateDecode step, as a Name or a one-element Array.
SingleFlate(filter) ==
    filter = Name("FlateDecode") \/ filter = Arr(<<Name("FlateDecode")>>)

\* C11: decompress_stream returns the output of the primary decompressor when it
\* succeeds; when it fails and the filter chain is exactly one FlateDecode step,
\* written as a Name or as a one-element Array, it returns what a direct zlib
\* inflate of the raw content gives; otherwise it returns an error.
C11_FallbackOnSingleFlate ==
    dst.done =>
        IF DecompressedContent(dst.stream, dst.libOk).ok
        THEN dst.out = DecompressedContent(dst.stream, dst.libOk)
        ELSE IF SingleFlate(dst.stream.dict.Filter)
        THEN dst.out = ZlibDecode(dst.stream.content)
        ELSE ~dst.out.ok

\* C12: the resolver leaves the image with a Filter and a DecodeParms entry where
\* a direct Reference is replaced by the value of the object it names, or by Null
\* when the identifier is absent; in an Array every Reference that resolves is
\* replaced by its value and every other element is kept, an unresolved Reference
\* included; any other entry, and an Array with nothing to resolve, is as before;
\* and nothing else of the document changes.
C12_ResolverRewrites ==
    pc = "resolved" =>
        /\ ResolvedFrom(last.pre, last.pre[1].dict.Filter, doc[1].dict.Filter)
        /\ ResolvedFrom(last.pre, last.pre[1].dict.DecodeParms, doc[1].dict.DecodeParms)
        /\ \A k \in DictKeys \ {"Filter", "DecodeParms"} :
               doc[1].dict[k] = last.pre[1].dict[k]
        /\ doc[1].content = last.pre[1].content
        /\ \A i \in DOMAIN doc \ {1} : doc[i] = last.pre[i]
        /\ (/\ last.pre[1].dict.Filter.t # "ref"
            /\ last.pre[1].dict.DecodeParms.t # "ref"
            /\ \A e \in {last.pre[1].dict.Filter, last.pre[1].dict.DecodeParms} :
                   e.t = "arr" =>
                       \A n \in 1 .. Len(e.items) :
                           e.items[n].t = "ref" => e.items[n].id \notin DOMAIN last.pre)
           => doc = last.pre

C12_Witness ==
    /\ pc = "resolved"
    /\ last.pre[1].dict.Filter = Arr(<<Ref(DanglingId), Ref(NumIds)>>)
    /\ doc[1].dict.Filter = Arr(<<Ref(DanglingId), last.pre[NumIds]>>)
    /\ last.pre[1].dict.DecodeParms = Ref(DanglingId)
    /\ doc[1].dict.DecodeParms = Null

C14_FrameOfACall ==
    /\ Called =>
           /\ DOMAIN doc = DOMAIN last.pre
           /\ \A i \in DOMAIN doc :
                  (i # last.id /\ MaskId # SomeId(i)) => doc[i] = last.pre[i]
    /\ (pc \in {"count", "loop", "done"} \/ (pc = "failed" /\ error # "load"))
           => object_ids = SortedKeys(DOMAIN doc)

C14_Witness ==
    /\ Called
    /\ last.res = "ok"
    /\ Cardinality(last.wrote) = 2
    /\ MaskAfter # MaskBefore
    /\ ImageAfter # ImageBefore
    /\ \E i \in DOMAIN doc \ last.wrote : IsStream(doc[i])
    /\ pc = "done"
====
